---- MODULE Spec2Model ----
(***************************************************************************)
(* A model of ykpack_explorer (src/main.rs): the decoding loop of          *)
(* process(), one rendering pass graph() per decoded Mir, and the          *)
(* terminator-to-edges mapping write_edges() with the pseudo-node          *)
(* registry Context.                                                       *)
(*                                                                         *)
(* Two specifications are defined.  Spec is a whole run of process().      *)
(* SpecEdges applies write_edges once to a block, a source index and a     *)
(* registry drawn from bounded sets.                                       *)
(***************************************************************************)
EXTENDS Integers, Sequences, FiniteSets, TLC

VARIABLES pc, panic, decoded, mir, bb_idx, fh, ctxt, dotLog, persisted, probe

vars == <<pc, panic, decoded, mir, bb_idx, fh, ctxt, dotLog, persisted, probe>>

runVars == <<pc, panic, decoded, mir, bb_idx, fh, ctxt, dotLog, persisted>>

(***************************************************************************)
(* Bounds.                                                                 *)
(***************************************************************************)
\* Records the Decoder can yield in one run.
MaxRecords == 2

\* Blocks of one function body in a run.
MaxBlocks == 2

\* Blocks of a function body whose blocks all end in a pseudo-node terminator.
MaxSinkBlocks == 3

\* Largest block index used by the blocks SpecEdges draws.
MaxTarget == 2

\* Longest SwitchInt target list SpecEdges draws.
MaxSwitch == 3

\* Largest count a registry prefix already has when SpecEdges starts.
MaxPrior == 1

(***************************************************************************)
(* Option<T>: None is the empty sequence, Some(x) the one-element one.     *)
(***************************************************************************)
None == <<>>

Some(x) == <<x>>

IsSome(o) == o # None

Unwrap(o) == o[1]

Range(s) == {s[i] : i \in 1..Len(s)}

(***************************************************************************)
(* ykpack's data: DefId, CallOperand, Terminator, BasicBlock, Mir.         *)
(***************************************************************************)
DefId(h, i) == [crate_hash |-> h, def_idx |-> i]

OperandFn(d) == [op |-> "Fn", def_id |-> d]

OperandUnknown == [op |-> "Unknown"]

Goto(t) == [kind |-> "Goto", target_bb |-> t]

FalseEdges(t) == [kind |-> "FalseEdges", real_target_bb |-> t]

FalseUnwind(t) == [kind |-> "FalseUnwind", real_target_bb |-> t]

SwitchInt(ts) == [kind |-> "SwitchInt", target_bbs |-> ts]

Resume == [kind |-> "Resume"]

Abort == [kind |-> "Abort"]

Return == [kind |-> "Return"]

Unreachable == [kind |-> "Unreachable"]

GeneratorDrop == [kind |-> "GeneratorDrop"]

Drop(t, u) == [kind |-> "Drop", target_bb |-> t, unwind_bb |-> u]

DropAndReplace(t, u) == [kind |-> "DropAndReplace", target_bb |-> t, unwind_bb |-> u]

AssertTerm(t, c) == [kind |-> "Assert", target_bb |-> t, cleanup_bb |-> c]

Yield(t, d) == [kind |-> "Yield", resume_bb |-> t, drop_bb |-> d]

Call(o, c, r) == [kind |-> "Call", operand |-> o, cleanup_bb |-> c, ret_bb |-> r]

BasicBlock(stmts, term) == [stmts |-> stmts, term |-> term]

Mir(d, blocks) == [def_id |-> d, blocks |-> blocks]

\* Every terminator value over the targets T, optional targets O, SwitchInt
\* lists S and call operands P.
Terminators(T, O, S, P) ==
    {Goto(t) : t \in T} \cup {FalseEdges(t) : t \in T} \cup {FalseUnwind(t) : t \in T}
    \cup {SwitchInt(l) : l \in S}
    \cup {Resume, Abort, Return, Unreachable, GeneratorDrop}
    \cup {Drop(t, u) : t \in T, u \in O}
    \cup {DropAndReplace(t, u) : t \in T, u \in O}
    \cup {AssertTerm(t, c) : t \in T, c \in O}
    \cup {Yield(t, d) : t \in T, d \in O}
    \cup {Call(o, c, r) : o \in P, c \in O, r \in O}

Options(T) == {None} \cup {Some(t) : t \in T}

SeqsUpTo(T, n) == UNION {[1..k -> T] : k \in 0..n}

(***************************************************************************)
(* The output file: a sequence of written lines.  An edge line and a node  *)
(* line keep the fields the format strings of write_edge_raw and           *)
(* style_node interpolate; the other lines are literal text.               *)
(***************************************************************************)
RawLine(text) == [line |-> "raw", text |-> text]

EdgeLine(src, dst, label) == [line |-> "edge", src |-> src, dst |-> dst, label |-> label]

NodeLine(name, label, attrs) == [line |-> "node", name |-> name, label |-> label, attrs |-> attrs]

write_edge_raw(w, src_node, dest_node, edge_label) ==
    Append(w, EdgeLine(src_node, dest_node, edge_label))

write_edge(w, src_node, dest_node, edge_label) ==
    write_edge_raw(w, ToString(src_node), ToString(dest_node), edge_label)

def_id_node_prefix(d) == ToString(d.crate_hash) \o "-" \o ToString(d.def_idx)

style_node(w, node_name, label, attrs) ==
    Append(w, NodeLine(node_name, IF IsSome(label) THEN Unwrap(label) ELSE node_name, attrs))

RECURSIVE JoinLines(_)
JoinLines(lines) ==
    IF lines = <<>> THEN ""
    ELSE IF Len(lines) = 1 THEN lines[1]
    ELSE lines[1] \o "\\n" \o JoinLines(Tail(lines))

get_statements_text(blk) == JoinLines(blk.stmts)

(***************************************************************************)
(* Context: the registry of pseudo-node labels, a map prefix -> count.     *)
(***************************************************************************)
Context_new == [external_nodes |-> [p \in {} |-> 0]]

ExternalCount(cx, node_prefix) ==
    IF node_prefix \in DOMAIN cx.external_nodes THEN cx.external_nodes[node_prefix] ELSE 0

\* external_node_label with the label formatted after the increment.
external_node_label_after_increment(cx, node_prefix) ==
    LET count == ExternalCount(cx, node_prefix)
        label == node_prefix \o "(" \o ToString(count + 1) \o ")"
    IN [cx |-> [external_nodes |->
                  [p \in DOMAIN cx.external_nodes \cup {node_prefix} |->
                      IF p = node_prefix THEN count + 1 ELSE cx.external_nodes[p]]],
        label |-> label]

\* external_node_label without the increment of the count.
external_node_label_no_increment(cx, node_prefix) ==
    LET count == ExternalCount(cx, node_prefix)
        label == node_prefix \o "(" \o ToString(count) \o ")"
    IN [cx |-> [external_nodes |->
                  [p \in DOMAIN cx.external_nodes \cup {node_prefix} |->
                      IF p = node_prefix THEN count ELSE cx.external_nodes[p]]],
        label |-> label]

\* The context after the request and the label it returns.
external_node_label(cx, node_prefix) ==
    LET count == ExternalCount(cx, node_prefix)
        label == node_prefix \o "(" \o ToString(count) \o ")"
    IN [cx |-> [external_nodes |->
                  [p \in DOMAIN cx.external_nodes \cup {node_prefix} |->
                      IF p = node_prefix THEN count + 1 ELSE cx.external_nodes[p]]],
        label |-> label]

(***************************************************************************)
(* write_edges: the edges of one block's terminator, the pseudo nodes they *)
(* need, and the block's own node.  The result is the registry and the     *)
(* file after the call.                                                    *)
(***************************************************************************)
goto_label == "goto"

ret_label == "ret"

call_label == "call"

cleanup_label == "cleanup"

abort_label == "abort"

false_edge_label == "false edge"

false_unwind_label == "false unwind"

switch_int_label == "switch_int"

resume_label == "resume"

unreach_label == "unreachable"

gen_drop_label == "gen drop"

drop_label == "drop"

unwind_label == "unwind"

drop_replace_label == "drop+replace"

yield_label == "yield"

assert_label == "assert"

\* The loop of the SwitchInt arm writing one edge per distinct target.
RECURSIVE write_switch_edges_dedup(_, _, _)
write_switch_edges_dedup(w, src_bb, target_bbs) ==
    IF target_bbs = <<>> THEN w
    ELSE IF Head(target_bbs) \in Range(Tail(target_bbs))
    THEN write_switch_edges_dedup(w, src_bb, Tail(target_bbs))
    ELSE write_switch_edges_dedup(write_edge(w, src_bb, Head(target_bbs), None),
                                  src_bb, Tail(target_bbs))

\* The loop of the SwitchInt arm: one edge per entry of target_bbs.
RECURSIVE write_switch_edges(_, _, _)
write_switch_edges(w, src_bb, target_bbs) ==
    IF target_bbs = <<>> THEN w
    ELSE write_switch_edges(write_edge(w, src_bb, Head(target_bbs), None),
                            src_bb, Tail(target_bbs))

\* A pseudo-node arm that styles the node and writes no edge to it.
write_sink_edge_node_only(cx, w, src_bb_str, node_prefix, attrs) ==
    LET r == external_node_label(cx, node_prefix)
    IN [cx |-> r.cx, fh |-> style_node(w, r.label, None, attrs)]

\* The arms Resume, Abort, Return, Unreachable and GeneratorDrop: request a
\* label, style the pseudo node, write the edge to it.
write_sink_edge(cx, w, src_bb_str, node_prefix, attrs) ==
    LET r == external_node_label(cx, node_prefix)
    IN [cx |-> r.cx,
        fh |-> write_edge_raw(style_node(w, r.label, None, attrs), src_bb_str, r.label, None)]

\* The arms Drop, DropAndReplace, Assert and Yield: the edge to the target
\* and, if the optional target is there, a labelled edge to it.
write_target_edges(w, src_bb, target_bb, opt_bb, opt_label) ==
    LET w1 == write_edge(w, src_bb, target_bb, None)
    IN IF IsSome(opt_bb) THEN write_edge(w1, src_bb, Unwrap(opt_bb), Some(opt_label)) ELSE w1

\* The Call arm with the edge to the return block drawn from the source block.
write_call_edges_ret_from_src(w, src_bb, target_node_str, cleanup_bb, ret_bb) ==
    LET w1 == write_edge_raw(w, ToString(src_bb), target_node_str, None)
        w2 == IF IsSome(cleanup_bb)
              THEN write_edge(w1, src_bb, Unwrap(cleanup_bb), Some(cleanup_label))
              ELSE w1
    IN IF IsSome(ret_bb) THEN write_edge(w2, src_bb, Unwrap(ret_bb), None) ELSE w2

\* The three edges of the Call arm, after the pseudo node is styled.
write_call_edges(w, src_bb, target_node_str, cleanup_bb, ret_bb) ==
    LET w1 == write_edge_raw(w, ToString(src_bb), target_node_str, None)
        w2 == IF IsSome(cleanup_bb)
              THEN write_edge(w1, src_bb, Unwrap(cleanup_bb), Some(cleanup_label))
              ELSE w1
    IN IF IsSome(ret_bb)
       THEN write_edge_raw(w2, target_node_str, ToString(Unwrap(ret_bb)), None)
       ELSE w2

\* The match on block.term: the registry, the file and the display label.
write_term_edges(cx, src_bb, term, w) ==
    LET src_bb_str == ToString(src_bb)
        plain(w1, label) == [cx |-> cx, fh |-> w1, term_label |-> label]
        sink(node_prefix, attrs, label) ==
            LET r == write_sink_edge(cx, w, src_bb_str, node_prefix, attrs)
            IN [cx |-> r.cx, fh |-> r.fh, term_label |-> label]
    IN CASE term.kind = "Goto" ->
              plain(write_edge(w, src_bb, term.target_bb, None), goto_label)
         [] term.kind = "FalseEdges" ->
              plain(write_edge(w, src_bb, term.real_target_bb, None), false_edge_label)
         [] term.kind = "FalseUnwind" ->
              plain(write_edge(w, src_bb, term.real_target_bb, None), false_unwind_label)
         [] term.kind = "SwitchInt" ->
              plain(write_switch_edges(w, src_bb, term.target_bbs), switch_int_label)
         [] term.kind = "Resume" ->
              sink(resume_label, Some("shape=point, color=blue"), resume_label)
         [] term.kind = "Abort" ->
              sink(abort_label, Some("shape=point, color=red"), abort_label)
         [] term.kind = "Return" ->
              sink(ret_label, Some("shape=point"), ret_label)
         [] term.kind = "Unreachable" ->
              sink(unreach_label, None, unreach_label)
         [] term.kind = "GeneratorDrop" ->
              sink(gen_drop_label, None, gen_drop_label)
         [] term.kind = "Drop" ->
              plain(write_target_edges(w, src_bb, term.target_bb, term.unwind_bb, unwind_label),
                    drop_label)
         [] term.kind = "DropAndReplace" ->
              plain(write_target_edges(w, src_bb, term.target_bb, term.unwind_bb, unwind_label),
                    drop_replace_label)
         [] term.kind = "Assert" ->
              plain(write_target_edges(w, src_bb, term.target_bb, term.cleanup_bb, unwind_label),
                    assert_label)
         [] term.kind = "Yield" ->
              plain(write_target_edges(w, src_bb, term.resume_bb, term.drop_bb, drop_label),
                    yield_label)
         [] term.kind = "Call" ->
              LET r == IF term.operand.op = "Fn"
                       THEN external_node_label(cx, def_id_node_prefix(term.operand.def_id))
                       ELSE external_node_label(cx, "???")
                  w1 == style_node(w, r.label, None,
                                   Some("fillcolor = lightblue1, style = filled"))
              IN [cx |-> r.cx,
                  fh |-> write_call_edges(w1, src_bb, r.label, term.cleanup_bb, term.ret_bb),
                  term_label |-> call_label]

BlockAttrs == "shape = record, style=filled, fillcolor=beige"

BlockNodeLabel(src_bb_str, stmts_str, term_label) ==
    "{" \o src_bb_str \o " | " \o stmts_str \o " | " \o term_label \o "}"

\* write_edges with the block's node written before the terminator's edges.
write_edges_node_first(cx, src_bb, block, w) ==
    LET src_bb_str == ToString(src_bb)
        stmts_str == get_statements_text(block)
        first == write_term_edges(cx, src_bb, block.term, <<>>)
        w1 == style_node(w, src_bb_str,
                         Some(BlockNodeLabel(src_bb_str, stmts_str, first.term_label)),
                         Some(BlockAttrs))
        r == write_term_edges(cx, src_bb, block.term, w1)
    IN [cx |-> r.cx, fh |-> r.fh]

write_edges(cx, src_bb, block, w) ==
    LET r == write_term_edges(cx, src_bb, block.term, w)
        src_bb_str == ToString(src_bb)
        stmts_str == get_statements_text(block)
    IN [cx |-> r.cx,
        fh |-> style_node(r.fh, src_bb_str,
                          Some(BlockNodeLabel(src_bb_str, stmts_str, r.term_label)),
                          Some(BlockAttrs))]

(***************************************************************************)
(* graph(): one rendering pass.  The temporary file is named after the     *)
(* function's DefId; the description is kept as <path>.dot.txt.            *)
(***************************************************************************)
TempPath(d) == "mirs/mir-" \o ToString(d.crate_hash) \o "-" \o ToString(d.def_idx)

PersistPath(tmp) == tmp \o ".dot.txt"

\* The lines graph() writes before the loop over the blocks.
graph_prologue(w) ==
    LET w1 == Append(w, RawLine("digraph \"g\" {"))
        w2 == Append(w1, RawLine("\tnode [ shape=box ]"))
        w3 == style_node(w2, "__entry", Some(""), Some("shape=point"))
    IN write_edge_raw(w3, "__entry", "0", None)

\* graph() without the closing brace.
graph_epilogue_missing(w) == w

\* The line graph() writes after the loop.
graph_epilogue(w) == Append(w, RawLine("}"))

(***************************************************************************)
(* The records a run's Decoder yields.  The i-th record carries the DefId  *)
(* (7, i); its blocks are drawn from RunBlocks.                            *)
(***************************************************************************)
RunDefId(i) == DefId(7, i)

\* Every variant, with the target 1, the optional targets absent and 0, an
\* empty SwitchInt and one with a repeated target, and a known callee.
RunTerms ==
    Terminators({1}, {None, Some(0)}, {<<>>, <<1, 1>>}, {OperandFn(DefId(1, 23))})

RunBlocks == {BasicBlock(<<>>, t) : t \in RunTerms}

\* Longer bodies whose blocks all end in a terminator that needs a pseudo node.
SinkTerms ==
    {Return, Abort,
     Call(OperandFn(DefId(1, 23)), None, None), Call(OperandFn(DefId(12, 3)), None, None),
     Call(OperandUnknown, None, None)}

SinkBlocks == {BasicBlock(<<>>, t) : t \in SinkTerms}

RunBodies == SeqsUpTo(RunBlocks, MaxBlocks) \cup SeqsUpTo(SinkBlocks, MaxSinkBlocks)

\* Exit statuses of the renderer.
ExitCodes == {0, 1}

NoMir == Mir(DefId(0, 0), <<>>)

Init ==
    /\ pc = "start"
    /\ panic = "none"
    /\ decoded = 0
    /\ mir = NoMir
    /\ bb_idx = 0
    /\ fh = <<>>
    /\ ctxt = Context_new
    /\ dotLog = <<>>
    /\ persisted = <<>>
    /\ probe = [done |-> TRUE]

\* A panic unwinds: the locals of graph() are dropped, and dropping the
\* NamedTempFile deletes the file.
Unwind(msg) ==
    /\ pc' = "panicked"
    /\ panic' = msg
    /\ mir' = NoMir
    /\ bb_idx' = 0
    /\ fh' = <<>>
    /\ ctxt' = Context_new
    /\ UNCHANGED <<decoded, dotLog, persisted, probe>>

\* process(): the ELF file opens and has the section .yk_mir_cfg.
ProcessOpen ==
    /\ pc = "start"
    /\ pc' = "next"
    /\ UNCHANGED <<panic, decoded, mir, bb_idx, fh, ctxt, dotLog, persisted, probe>>

\* process(): open_path or get_section fails and unwrap() panics.
ProcessOpenFail ==
    /\ pc = "start"
    /\ Unwind("input")

\* dec.next() yields Ok(Some(pack)): the loop body runs graph(mir).
DecodeSome ==
    /\ pc = "next"
    /\ decoded < MaxRecords
    /\ \E blocks \in RunBodies :
         mir' = Mir(RunDefId(decoded + 1), blocks)
    /\ decoded' = decoded + 1
    /\ pc' = "graph"
    /\ UNCHANGED <<panic, bb_idx, fh, ctxt, dotLog, persisted, probe>>

\* dec.next() yields Ok(None): the loop ends and process() returns.
DecodeNone ==
    /\ pc = "next"
    /\ pc' = "done"
    /\ UNCHANGED <<panic, decoded, mir, bb_idx, fh, ctxt, dotLog, persisted, probe>>

\* dec.next() yields Err: unwrap() panics.
DecodeErr ==
    /\ pc = "next"
    /\ decoded < MaxRecords
    /\ Unwind("decode")

\* graph(): the temporary file is created, the prologue written and the
\* registry created.
GraphOpen ==
    /\ pc = "graph"
    /\ fh' = graph_prologue(<<>>)
    /\ ctxt' = Context_new
    /\ bb_idx' = 0
    /\ pc' = IF Len(mir.blocks) = 0 THEN "close" ELSE "blocks"
    /\ UNCHANGED <<panic, decoded, mir, dotLog, persisted, probe>>

\* graph(): one iteration of the loop over mir.blocks.
WriteEdges ==
    /\ pc = "blocks"
    /\ LET r == write_edges(ctxt, bb_idx, mir.blocks[bb_idx + 1], fh)
       IN /\ fh' = r.fh
          /\ ctxt' = r.cx
    /\ bb_idx' = bb_idx + 1
    /\ pc' = IF bb_idx + 1 = Len(mir.blocks) THEN "close" ELSE "blocks"
    /\ UNCHANGED <<panic, decoded, mir, dotLog, persisted, probe>>

\* graph(): the closing brace.
GraphClose ==
    /\ pc = "close"
    /\ fh' = graph_epilogue(fh)
    /\ pc' = "dot"
    /\ UNCHANGED <<panic, decoded, mir, bb_idx, ctxt, dotLog, persisted, probe>>

\* graph(): cmd.status() runs the renderer on the file and returns Ok(status),
\* whatever the status; expect() passes.
RunDot ==
    /\ pc = "dot"
    /\ \E status \in ExitCodes :
         dotLog' = Append(dotLog, [input |-> TempPath(mir.def_id), status |-> status])
    /\ pc' = "persist"
    /\ UNCHANGED <<panic, decoded, mir, bb_idx, fh, ctxt, persisted, probe>>

\* graph(): cmd.status() returns Err (the renderer cannot be started) and
\* expect() panics.
RunDotSpawnErr ==
    /\ pc = "dot"
    /\ Unwind("dot failed")

\* graph() returning without persisting the file.
PersistDropped ==
    /\ pc = "persist"
    /\ persisted' = persisted
    /\ pc' = "next"
    /\ mir' = NoMir
    /\ bb_idx' = 0
    /\ fh' = <<>>
    /\ ctxt' = Context_new
    /\ UNCHANGED <<panic, decoded, dotLog, probe>>

\* graph(): the file is persisted as <path>.dot.txt and graph() returns.
Persist ==
    /\ pc = "persist"
    /\ persisted' = Append(persisted, PersistPath(TempPath(mir.def_id)))
    /\ pc' = "next"
    /\ mir' = NoMir
    /\ bb_idx' = 0
    /\ fh' = <<>>
    /\ ctxt' = Context_new
    /\ UNCHANGED <<panic, decoded, dotLog, probe>>

\* graph(): creating, writing or persisting the file fails and unwrap() panics.
IoPanic ==
    /\ pc \in {"graph", "blocks", "close", "persist"}
    /\ Unwind("io")

Next ==
    \/ ProcessOpen
    \/ ProcessOpenFail
    \/ DecodeSome
    \/ DecodeNone
    \/ DecodeErr
    \/ GraphOpen
    \/ WriteEdges
    \/ GraphClose
    \/ RunDot
    \/ RunDotSpawnErr
    \/ Persist
    \/ IoPanic

Spec == Init /\ [][Next]_vars

(***************************************************************************)
(* SpecEdges: write_edges applied once.  The source index, the block and   *)
(* the registry it finds are drawn from bounded sets; the file already     *)
(* holds the prologue.                                                     *)
(***************************************************************************)
EdgeTargets == 0..MaxTarget

EdgeOperands == {OperandFn(DefId(1, 23)), OperandFn(DefId(12, 3)), OperandUnknown}

EdgeTerms ==
    Terminators(EdgeTargets, Options(EdgeTargets), SeqsUpTo(EdgeTargets, MaxSwitch),
                EdgeOperands)

EdgeStmts == {<<>>, <<"Nop">>, <<"Nop", "Unimplemented">>}

EdgePrefixes ==
    {resume_label, abort_label, ret_label, unreach_label, gen_drop_label, "???"}
    \cup {def_id_node_prefix(o.def_id) : o \in {x \in EdgeOperands : x.op = "Fn"}}

\* The registry after k requests for every prefix.
PriorContext(k) ==
    IF k = 0 THEN Context_new ELSE [external_nodes |-> [p \in EdgePrefixes |-> k]]

InitEdges ==
    /\ pc = "start"
    /\ panic = "none"
    /\ decoded = 0
    /\ mir = NoMir
    /\ bb_idx = 0
    /\ fh = <<>>
    /\ ctxt = Context_new
    /\ dotLog = <<>>
    /\ persisted = <<>>
    /\ probe \in {[done |-> FALSE, src_bb |-> s, block |-> BasicBlock(st, t),
                   cx0 |-> PriorContext(k), fh0 |-> graph_prologue(<<>>),
                   cx |-> PriorContext(k), fh |-> graph_prologue(<<>>)] :
                     s \in EdgeTargets, st \in EdgeStmts, t \in EdgeTerms, k \in 0..MaxPrior}

ApplyWriteEdges ==
    /\ ~probe.done
    /\ LET r == write_edges(probe.cx0, probe.src_bb, probe.block, probe.fh0)
       IN probe' = [probe EXCEPT !.done = TRUE, !.cx = r.cx, !.fh = r.fh]
    /\ UNCHANGED runVars

NextEdges == ApplyWriteEdges

SpecEdges == InitEdges /\ [][NextEdges]_vars

(***************************************************************************)
(* What the claims are stated over: the lines of a file, and the table of  *)
(* section 4.1 of the specification.                                       *)
(***************************************************************************)
EdgesOf(lines) == SelectSeq(lines, LAMBDA l : l.line = "edge")

NodesOf(lines) == SelectSeq(lines, LAMBDA l : l.line = "node")

IsBlockNode(l) == l.line = "node" /\ l.attrs = Some(BlockAttrs)

IsPseudoNode(l) == l.line = "node" /\ l.attrs # Some(BlockAttrs) /\ l.name # "__entry"

BlockNodesOf(lines) == SelectSeq(lines, IsBlockNode)

PseudoNodesOf(lines) == SelectSeq(lines, IsPseudoNode)

Count(e, q) == Cardinality({i \in 1..Len(q) : q[i] = e})

SameBag(a, b) ==
    /\ Len(a) = Len(b)
    /\ \A e \in Range(a) \cup Range(b) : Count(e, a) = Count(e, b)

\* The decimal text of a block index.
Idx(n) == ToString(n)

\* Section 4.2: the label of the k-th request for a prefix.
RegistryLabel(prefix, k) == prefix \o "(" \o ToString(k) \o ")"

\* Section 4.1: the prefix of the pseudo node of a terminator, if it has one.
TablePrefix(term) ==
    CASE term.kind = "Resume" -> Some("resume")
      [] term.kind = "Abort" -> Some("abort")
      [] term.kind = "Return" -> Some("ret")
      [] term.kind = "Unreachable" -> Some("unreachable")
      [] term.kind = "GeneratorDrop" -> Some("gen drop")
      [] term.kind = "Call" ->
           IF term.operand.op = "Fn"
           THEN Some(ToString(term.operand.def_id.crate_hash) \o "-"
                     \o ToString(term.operand.def_id.def_idx))
           ELSE Some("???")
      [] OTHER -> None

\* Section 4.1: the display label of a terminator.
TableLabel(term) ==
    CASE term.kind = "Goto" -> "goto"
      [] term.kind = "FalseEdges" -> "false edge"
      [] term.kind = "FalseUnwind" -> "false unwind"
      [] term.kind = "SwitchInt" -> "switch_int"
      [] term.kind = "Resume" -> "resume"
      [] term.kind = "Abort" -> "abort"
      [] term.kind = "Return" -> "ret"
      [] term.kind = "Unreachable" -> "unreachable"
      [] term.kind = "GeneratorDrop" -> "gen drop"
      [] term.kind = "Drop" -> "drop"
      [] term.kind = "DropAndReplace" -> "drop+replace"
      [] term.kind = "Assert" -> "assert"
      [] term.kind = "Yield" -> "yield"
      [] term.kind = "Call" -> "call"

TableOptEdge(src, opt, label) ==
    IF IsSome(opt) THEN <<EdgeLine(Idx(src), Idx(Unwrap(opt)), Some(label))>> ELSE <<>>

\* Section 4.1: the edges of a terminator of block src; pseudo is the label of
\* its pseudo node.
TableEdges(src, term, pseudo) ==
    CASE term.kind = "Goto" -> <<EdgeLine(Idx(src), Idx(term.target_bb), None)>>
      [] term.kind \in {"FalseEdges", "FalseUnwind"} ->
           <<EdgeLine(Idx(src), Idx(term.real_target_bb), None)>>
      [] term.kind = "SwitchInt" ->
           [i \in 1..Len(term.target_bbs) |-> EdgeLine(Idx(src), Idx(term.target_bbs[i]), None)]
      [] term.kind \in {"Resume", "Abort", "Return", "Unreachable", "GeneratorDrop"} ->
           <<EdgeLine(Idx(src), pseudo, None)>>
      [] term.kind \in {"Drop", "DropAndReplace"} ->
           <<EdgeLine(Idx(src), Idx(term.target_bb), None)>>
           \o TableOptEdge(src, term.unwind_bb, "unwind")
      [] term.kind = "Assert" ->
           <<EdgeLine(Idx(src), Idx(term.target_bb), None)>>
           \o TableOptEdge(src, term.cleanup_bb, "unwind")
      [] term.kind = "Yield" ->
           <<EdgeLine(Idx(src), Idx(term.resume_bb), None)>>
           \o TableOptEdge(src, term.drop_bb, "drop")
      [] term.kind = "Call" ->
           <<EdgeLine(Idx(src), pseudo, None)>>
           \o TableOptEdge(src, term.cleanup_bb, "cleanup")
           \o (IF IsSome(term.ret_bb)
               THEN <<EdgeLine(pseudo, Idx(Unwrap(term.ret_bb)), None)>>
               ELSE <<>>)

\* The optional target of a terminator that has one.
OptTarget(term) ==
    CASE term.kind \in {"Drop", "DropAndReplace"} -> term.unwind_bb
      [] term.kind = "Assert" -> term.cleanup_bb
      [] term.kind = "Yield" -> term.drop_bb

\* The lines the one call of SpecEdges wrote.
ProbeWritten == SubSeq(probe.fh, Len(probe.fh0) + 1, Len(probe.fh))

ProbeTerm == probe.block.term

\* The label the registry hands out for the terminator of the probe.
ProbePseudo ==
    IF IsSome(TablePrefix(ProbeTerm))
    THEN RegistryLabel(Unwrap(TablePrefix(ProbeTerm)),
                       ExternalCount(probe.cx0, Unwrap(TablePrefix(ProbeTerm))))
    ELSE ""

(***************************************************************************)
(* C1 (SpecEdges).  For every terminator and source index, the edges       *)
(* write_edges writes, as a multiset of (source, destination, label), are  *)
(* those of the table of section 4.1, with one edge per SwitchInt entry    *)
(* and exactly one edge when an optional target is absent; and the block's *)
(* node is written last, labelled with the block index, the statements'    *)
(* text and the table's display label.                                     *)
(***************************************************************************)
C1_TableEdges ==
    probe.done =>
      /\ SameBag(EdgesOf(ProbeWritten), TableEdges(probe.src_bb, ProbeTerm, ProbePseudo))
      /\ ProbeTerm.kind = "SwitchInt" =>
           Len(EdgesOf(ProbeWritten)) = Len(ProbeTerm.target_bbs)
      /\ (ProbeTerm.kind \in {"Drop", "DropAndReplace", "Assert", "Yield"}
            /\ OptTarget(ProbeTerm) = None) =>
           Len(EdgesOf(ProbeWritten)) = 1
      /\ BlockNodesOf(ProbeWritten) = <<ProbeWritten[Len(ProbeWritten)]>>
      /\ ProbeWritten[Len(ProbeWritten)].name = Idx(probe.src_bb)
      /\ ProbeWritten[Len(ProbeWritten)].label =
           "{" \o Idx(probe.src_bb) \o " | " \o JoinLines(probe.block.stmts) \o " | "
               \o TableLabel(ProbeTerm) \o "}"

\* A SwitchInt with three targets, the first two equal, has been written.
C1_Witness ==
    /\ probe.done
    /\ ProbeTerm.kind = "SwitchInt"
    /\ Len(ProbeTerm.target_bbs) = 3
    /\ ProbeTerm.target_bbs[1] = ProbeTerm.target_bbs[2]
    /\ ProbeTerm.target_bbs[3] # ProbeTerm.target_bbs[1]
    /\ Len(EdgesOf(ProbeWritten)) = 3

(***************************************************************************)
(* C4 (SpecEdges).  A Call makes one registry request, for the prefix      *)
(* "<crate_hash>-<def_idx>" of a known callee and "???" otherwise, and     *)
(* styles one pseudo node with the label returned.  Its edges are, in this *)
(* order: src -> pseudo unlabelled; if cleanup is present, src -> cleanup  *)
(* labelled "cleanup"; if ret is present, pseudo -> ret unlabelled, from   *)
(* the pseudo node and not from src.  With both present there are exactly  *)
(* three edges, and leaving one out removes exactly its edge.              *)
(***************************************************************************)
C4_CallEdges ==
    (probe.done /\ ProbeTerm.kind = "Call") =>
      LET prefix == IF ProbeTerm.operand.op = "Fn"
                    THEN ToString(ProbeTerm.operand.def_id.crate_hash) \o "-"
                         \o ToString(ProbeTerm.operand.def_id.def_idx)
                    ELSE "???"
          k == ExternalCount(probe.cx0, prefix)
          pseudo == RegistryLabel(prefix, k)
          src == Idx(probe.src_bb)
          es == EdgesOf(ProbeWritten)
          cleanup == IF IsSome(ProbeTerm.cleanup_bb)
                     THEN <<EdgeLine(src, Idx(Unwrap(ProbeTerm.cleanup_bb)), Some("cleanup"))>>
                     ELSE <<>>
          ret == IF IsSome(ProbeTerm.ret_bb)
                 THEN <<EdgeLine(pseudo, Idx(Unwrap(ProbeTerm.ret_bb)), None)>>
                 ELSE <<>>
      IN /\ Len(PseudoNodesOf(ProbeWritten)) = 1
         /\ PseudoNodesOf(ProbeWritten)[1].name = pseudo
         /\ PseudoNodesOf(ProbeWritten)[1].attrs = Some("fillcolor = lightblue1, style = filled")
         /\ ExternalCount(probe.cx, prefix) = k + 1
         /\ \A p \in EdgePrefixes \ {prefix} :
              ExternalCount(probe.cx, p) = ExternalCount(probe.cx0, p)
         /\ es = <<EdgeLine(src, pseudo, None)>> \o cleanup \o ret
         /\ (IsSome(ProbeTerm.cleanup_bb) /\ IsSome(ProbeTerm.ret_bb)) => Len(es) = 3
         /\ Cardinality({i \in 1..Len(es) : es[i].src = src}) = 1 + Len(cleanup)
         /\ pseudo # src

\* A call of a known callee with a cleanup block and another return block.
C4_Witness ==
    /\ probe.done
    /\ ProbeTerm.kind = "Call"
    /\ ProbeTerm.operand.op = "Fn"
    /\ IsSome(ProbeTerm.cleanup_bb)
    /\ IsSome(ProbeTerm.ret_bb)
    /\ ProbeTerm.cleanup_bb # ProbeTerm.ret_bb
    /\ Len(EdgesOf(ProbeWritten)) = 3

(***************************************************************************)
(* C5 as stated (SpecEdges).  Every block has at least one edge whose      *)
(* source is that block.                                                   *)
(***************************************************************************)
C5_EveryBlockHasEdge ==
    probe.done =>
      \E i \in 1..Len(EdgesOf(ProbeWritten)) :
         EdgesOf(ProbeWritten)[i].src = Idx(probe.src_bb)

(***************************************************************************)
(* C5 amended (SpecEdges).  Every block whose terminator is not a          *)
(* SwitchInt with an empty target list has at least one edge whose source  *)
(* is that block; a SwitchInt with no targets has no edge at all.          *)
(***************************************************************************)
C5_NonEmptyHasEdge ==
    probe.done =>
      IF ProbeTerm = SwitchInt(<<>>)
      THEN EdgesOf(ProbeWritten) = <<>>
      ELSE \E i \in 1..Len(EdgesOf(ProbeWritten)) :
              EdgesOf(ProbeWritten)[i].src = Idx(probe.src_bb)

\* A SwitchInt with a single target has been written.
C5_Witness ==
    /\ probe.done
    /\ ProbeTerm.kind = "SwitchInt"
    /\ Len(ProbeTerm.target_bbs) = 1
    /\ Len(EdgesOf(ProbeWritten)) = 1

(***************************************************************************)
(* The claims about a run are stated over the file of the current pass,    *)
(* the body being rendered and the logs of the run.                        *)
(***************************************************************************)
\* The prefixes the first n blocks request from the registry, in block order.
RECURSIVE Requests(_, _)
Requests(blocks, n) ==
    IF n = 0 THEN <<>>
    ELSE Requests(blocks, n - 1) \o TablePrefix(blocks[n].term)

\* How many of the first j - 1 requests had the prefix of the j-th.
Earlier(req, j) == Cardinality({i \in 1..(j - 1) : req[i] = req[j]})

Names(nodes) == [i \in 1..Len(nodes) |-> nodes[i].name]

\* The positions in the file f of the nodes of the blocks, in file order.
BlockNodePositions(f) ==
    LET at == {k \in 1..Len(f) : IsBlockNode(f[k])}
    IN [i \in 1..Cardinality(at) |->
          CHOOSE k \in at : Cardinality({j \in at : j < k}) = i - 1]

InPass == pc \in {"blocks", "close", "dot", "persist"}

\* The file holds a whole description of the body m.
Complete(f, m) ==
    /\ Len(f) >= 5
    /\ f[1] = RawLine("digraph \"g\" {")
    /\ f[2] = RawLine("\tnode [ shape=box ]")
    /\ f[3] = NodeLine("__entry", "", Some("shape=point"))
    /\ f[4] = EdgeLine("__entry", "0", None)
    /\ f[Len(f)] = RawLine("}")
    /\ Names(BlockNodesOf(f)) = [i \in 1..Len(m.blocks) |-> Idx(i - 1)]
    /\ Len(PseudoNodesOf(f)) = Len(Requests(m.blocks, Len(m.blocks)))
    /\ Cardinality({k \in 1..Len(f) : f[k] = RawLine("}")}) = 1

(***************************************************************************)
(* C2 (Spec).  In every pass of a run, the pseudo nodes written so far     *)
(* carry, in request order, the labels prefix(k), where k is the number    *)
(* of earlier requests of the same pass with the same prefix: the counter  *)
(* of a prefix starts at 0 in every pass, whatever was rendered before,    *)
(* and grows by one per request, whatever other prefixes come between.     *)
(***************************************************************************)
C2_KthRequest ==
    LET req == Requests(mir.blocks, bb_idx)
        got == Names(PseudoNodesOf(fh))
    IN /\ Len(got) = Len(req)
       /\ \A j \in 1..Len(req) : got[j] = RegistryLabel(req[j], Earlier(req, j))
       /\ \A p \in Range(req) : ExternalCount(ctxt, p) = Count(p, req)

\* In the second pass of a run, a prefix was requested, then another, then the
\* first again.
C2_Witness ==
    /\ decoded = 2
    /\ Len(persisted) = 1
    /\ pc = "close"
    /\ Len(mir.blocks) = 3
    /\ Requests(mir.blocks, 3)[1] = Requests(mir.blocks, 3)[3]
    /\ Requests(mir.blocks, 3)[1] # Requests(mir.blocks, 3)[2]
    /\ Names(PseudoNodesOf(fh))[3] = RegistryLabel(Requests(mir.blocks, 3)[1], 1)

(***************************************************************************)
(* C3 (Spec).  In one pass no two registry requests return the same label: *)
(* the pseudo nodes written are pairwise different, there is one per block *)
(* visited whose terminator is Resume, Abort, Return, Unreachable,         *)
(* GeneratorDrop or Call, and each is the destination of exactly one edge, *)
(* so that no two blocks share a pseudo node.                              *)
(***************************************************************************)
C3_UniqueLabels ==
    LET got == Names(PseudoNodesOf(fh))
        es == EdgesOf(fh)
    IN /\ \A i, j \in 1..Len(got) : i # j => got[i] # got[j]
       /\ Len(got) = Cardinality({i \in 1..bb_idx : IsSome(TablePrefix(mir.blocks[i].term))})
       /\ \A i \in 1..Len(got) :
            Cardinality({k \in 1..Len(es) : es[k].dst = got[i]}) = 1
       /\ \A i \in 1..bb_idx :
            IsSome(TablePrefix(mir.blocks[i].term)) =>
              \E k \in 1..Len(es) : es[k].src = Idx(i - 1) /\ es[k].dst \in Range(got)

\* Three blocks of one pass call the same callee.
C3_Witness ==
    /\ pc = "close"
    /\ Len(mir.blocks) = 3
    /\ \A i \in 1..3 : mir.blocks[i].term = Call(OperandFn(DefId(1, 23)), None, None)
    /\ Len(PseudoNodesOf(fh)) = 3

(***************************************************************************)
(* C6 as stated (Spec).  Once the renderer has exited with a non-zero      *)
(* status for a function, no later record is decoded and the run does not  *)
(* end normally.                                                           *)
(***************************************************************************)
C6_NonZeroExitIsFatal ==
    \A i \in 1..Len(dotLog) :
       dotLog[i].status # 0 => (decoded <= i /\ pc # "done")

(***************************************************************************)
(* C7 (Spec).  When the Decoder fails after yielding k records, the run    *)
(* has stopped with exactly the first k functions rendered, in decode      *)
(* order: for each the renderer was run on the function's file and the     *)
(* description kept, and nothing else.  The Decoder is asked for a record  *)
(* only when every record it yielded before has been rendered, and what is *)
(* kept is a whole description.                                            *)
(***************************************************************************)
C7_DecodeFailureKeepsRendered ==
    /\ (pc = "panicked" /\ panic = "decode") =>
         /\ persisted = [i \in 1..decoded |-> PersistPath(TempPath(RunDefId(i)))]
         /\ [i \in 1..Len(dotLog) |-> dotLog[i].input] =
              [i \in 1..decoded |-> TempPath(RunDefId(i))]
         /\ fh = <<>>
    /\ pc = "next" => (Len(persisted) = decoded /\ Len(dotLog) = decoded)
    /\ pc = "persist" => Complete(fh, mir)

\* The Decoder failed on the second record, after the first was rendered.
C7_Witness ==
    /\ pc = "panicked"
    /\ panic = "decode"
    /\ decoded = 1
    /\ Len(persisted) = 1

(***************************************************************************)
(* C8 (Spec).  Whenever the renderer is run, the file it is given holds    *)
(* the whole description: the header, the entry node and edge, every       *)
(* block's edges and node, and the closing brace.  A pass that fails       *)
(* before that never runs the renderer.                                    *)
(***************************************************************************)
C8_RendererSeesWholeFile ==
    [][/\ dotLog' # dotLog =>
            /\ Complete(fh, mir)
            /\ fh' = fh
            /\ dotLog' = Append(dotLog, dotLog'[Len(dotLog')])
            /\ dotLog'[Len(dotLog')].input = TempPath(mir.def_id)
       /\ (pc' = "panicked" /\ pc \in {"graph", "blocks", "close", "dot"}) =>
            dotLog' = dotLog]_vars

\* The renderer has been run on a body with blocks.
C8_Witness ==
    /\ pc = "persist"
    /\ Len(mir.blocks) = MaxBlocks
    /\ Len(dotLog) = decoded

(***************************************************************************)
(* C9 (Spec).  A pass writes the graph opening, the entry node and the one *)
(* edge __entry -> 0, then for the blocks 0, 1, ... in increasing order    *)
(* and once each the block's terminator edges followed by the block's node,*)
(* then the graph closing.  There is no edge but the entry edge and those  *)
(* of the visited blocks, and the closing is written only after all blocks.*)
(***************************************************************************)
C9_PassOrder ==
    InPass =>
      /\ fh[1] = RawLine("digraph \"g\" {")
      /\ fh[3] = NodeLine("__entry", "", Some("shape=point"))
      /\ fh[4] = EdgeLine("__entry", "0", None)
      /\ Cardinality({k \in 1..Len(fh) : fh[k].line = "edge" /\ fh[k].src = "__entry"}) = 1
      /\ Names(BlockNodesOf(fh)) = [i \in 1..bb_idx |-> Idx(i - 1)]
      /\ LET pos == BlockNodePositions(fh)
         IN \A i \in 1..bb_idx :
              \* The lines of block i - 1: those after the node of the block
              \* before (after the four lines of the prologue for block 0), up
              \* to and including its own node.
              LET seg == SubSeq(fh, (IF i = 1 THEN 4 ELSE pos[i - 1]) + 1, pos[i])
                  es == EdgesOf(seg)
                  ps == PseudoNodesOf(seg)
                  pseudo == IF ps = <<>> THEN "" ELSE ps[1].name
              IN /\ IsBlockNode(seg[Len(seg)])
                 /\ SameBag(es, TableEdges(i - 1, mir.blocks[i].term, pseudo))
                 /\ Len(ps) = Len(TablePrefix(mir.blocks[i].term))
      /\ pc = "blocks" => bb_idx < Len(mir.blocks)
      /\ pc \in {"close", "dot", "persist"} => bb_idx = Len(mir.blocks)
      /\ Cardinality({k \in 1..Len(fh) : fh[k] = RawLine("}")})
           = (IF pc \in {"dot", "persist"} THEN 1 ELSE 0)
      /\ pc \in {"dot", "persist"} =>
           /\ fh[Len(fh)] = RawLine("}")
           /\ Len(fh) = 5 + Len(EdgesOf(fh)) - 1 + Len(PseudoNodesOf(fh)) + bb_idx
      /\ (pc \in {"dot", "persist"}
            /\ mir.blocks = <<BasicBlock(<<>>, Goto(1)), BasicBlock(<<>>, Return)>>) =>
           EdgesOf(fh) = <<EdgeLine("__entry", "0", None), EdgeLine("0", "1", None),
                           EdgeLine("1", "ret(0)", None)>>

\* The pass over the body Goto(1), Return has written its closing.
C9_Witness ==
    /\ pc = "persist"
    /\ mir.blocks = <<BasicBlock(<<>>, Goto(1)), BasicBlock(<<>>, Return)>>
    /\ Len(EdgesOf(fh)) = 3

(***************************************************************************)
(* C10 as stated (Spec).  For every body whose terminator targets are all  *)
(* valid, a body without blocks included, every endpoint of every edge of  *)
(* the finished graph is a node the graph declares exactly once, and no    *)
(* pseudo-node label is __entry or a block index.                          *)
(***************************************************************************)
TargetsOf(term) ==
    CASE term.kind = "Goto" -> {term.target_bb}
      [] term.kind \in {"FalseEdges", "FalseUnwind"} -> {term.real_target_bb}
      [] term.kind = "SwitchInt" -> Range(term.target_bbs)
      [] term.kind \in {"Drop", "DropAndReplace", "Assert", "Yield"} ->
           {IF term.kind = "Yield" THEN term.resume_bb ELSE term.target_bb}
           \cup Range(OptTarget(term))
      [] term.kind = "Call" -> Range(term.cleanup_bb) \cup Range(term.ret_bb)
      [] OTHER -> {}

AllTargetsValid(m) ==
    \A i \in 1..Len(m.blocks) :
       \A t \in TargetsOf(m.blocks[i].term) : t < Len(m.blocks)

C10_EndpointsDeclared ==
    (pc \in {"dot", "persist"} /\ AllTargetsValid(mir)) =>
      LET es == EdgesOf(fh)
          ns == Names(NodesOf(fh))
      IN /\ \A k \in 1..Len(es) :
              /\ Count(es[k].src, ns) = 1
              /\ Count(es[k].dst, ns) = 1
         /\ \A k \in 1..Len(PseudoNodesOf(fh)) :
              /\ PseudoNodesOf(fh)[k].name # "__entry"
              /\ \A i \in 0..Len(mir.blocks) : PseudoNodesOf(fh)[k].name # Idx(i)

====
